---- MODULE Spec2Model ----
(***************************************************************************)
(* Model of src/core/geometry.rs: the generic value types Vector2<T> and   *)
(* Vector3<T>, their operators and queries.                                *)
(*                                                                         *)
(* The element type T is instantiated twice:                               *)
(*   "f"  a binary floating-point type with the structure of f32 (sign,    *)
(*        biased exponent, fraction with hidden bit, subnormals, signed    *)
(*        zeros, infinities, NaN; round-to-nearest-even), scaled down to   *)
(*        ExpBits exponent bits and MantBits fraction bits;                *)
(*   "i"  a two's-complement signed integer type of IntBits bits with      *)
(*        Rust's overflow behaviour: a panic when the build has overflow   *)
(*        checks (dev profile), wrap-around when it has not (release).     *)
(* A float is represented by its bit pattern, an integer by its value.     *)
(***************************************************************************)
EXTENDS Integers, Sequences, FiniteSets, TLC

\* ------------------------------------------------------------------------
\* Bounds of the model
\* ------------------------------------------------------------------------
ExpBits == 3
MantBits == 3
IntBits == 8
MaxIndex == 4

\* ------------------------------------------------------------------------
\* Integer element type (T = iN)
\* ------------------------------------------------------------------------
IntMin == -(2 ^ (IntBits - 1))
IntMax == (2 ^ (IntBits - 1)) - 1

\* Two's-complement wrap-around of an exact result.
IntWrap(n) == ((n - IntMin) % (2 ^ IntBits)) + IntMin

IntInRange(n) == IntMin <= n /\ n <= IntMax

\* ------------------------------------------------------------------------
\* Floating-point element type (T: Float)
\* ------------------------------------------------------------------------
MagBits == ExpBits + MantBits
SignBit == 2 ^ MagBits
Hidden == 2 ^ MantBits
Bias == (2 ^ (ExpBits - 1)) - 1
EMin == 1 - Bias
EMax == (2 ^ ExpBits) - 2 - Bias
QMin == EMin - MantBits
InfMag == ((2 ^ ExpBits) - 1) * Hidden

FSign(p) == p \div SignBit
FMag(p) == p % SignBit
FPack(s, m) == s * SignBit + m

PosZero == 0
NegZero == SignBit
PosInf == InfMag
NegInf == SignBit + InfMag
\* Float::nan(): the quiet NaN.
NaN == InfMag + (Hidden \div 2)
\* 1.0
One == Bias * Hidden

\* x.is_nan()
FIsNan(p) == FMag(p) > InfMag
FIsInf(p) == FMag(p) = InfMag
FIsZero(p) == FMag(p) = 0
FIsFinite(p) == FMag(p) < InfMag

\* A finite magnitude m is the number Mant(m) * 2^QExp(m).
ExpField(m) == m \div Hidden
Mant(m) == IF ExpField(m) = 0 THEN m % Hidden ELSE Hidden + (m % Hidden)
QExp(m) == (IF ExpField(m) = 0 THEN 1 ELSE ExpField(m)) + QMin - 1
\* The same number as a multiple of the least subnormal 2^QMin.
ValInt(m) == Mant(m) * (2 ^ (QExp(m) - QMin))

RECURSIVE BitLen(_)
BitLen(n) == IF n = 0 THEN 0 ELSE 1 + BitLen(n \div 2)

RECURSIVE IsqrtFrom(_, _)
IsqrtFrom(n, r) == IF (r + 1) * (r + 1) > n THEN r ELSE IsqrtFrom(n, r + 1)

\* floor(sqrt(n)), starting the search at a power of two below the root.
Isqrt(n) == IF n = 0 THEN 0 ELSE IsqrtFrom(n, 2 ^ ((BitLen(n) - 1) \div 2))

\* Round the exact non-negative number m * 2^e to the nearest magnitude,
\* ties to even; above the largest finite magnitude the result is infinity.
RoundMag(m, e) ==
    IF m = 0 THEN 0
    ELSE LET nb == BitLen(m)
             ev == e + nb - 1
             qe == (IF ev > EMin THEN ev ELSE EMin) - MantBits
             ef == qe - QMin + 1
         IN  IF ev > EMax THEN InfMag
             ELSE IF e >= qe
                  THEN (ef - 1) * Hidden + m * (2 ^ (e - qe))
                  ELSE LET d == qe - e
                       IN  IF d > nb THEN 0
                           ELSE LET q == m \div (2 ^ d)
                                    r == m % (2 ^ d)
                                    half == 2 ^ (d - 1)
                                    up == IF r > half \/ (r = half /\ q % 2 = 1)
                                          THEN 1 ELSE 0
                                    pat == (ef - 1) * Hidden + q + up
                                IN  IF pat >= InfMag THEN InfMag ELSE pat

\* -x
FNeg(p) == IF FIsNan(p) THEN NaN ELSE FPack(1 - FSign(p), FMag(p))

\* x.abs()
FAbs(p) == IF FIsNan(p) THEN NaN ELSE FMag(p)

\* x + y
FAdd(a, b) ==
    IF FIsNan(a) \/ FIsNan(b) THEN NaN
    ELSE IF FIsInf(a) /\ FIsInf(b)
         THEN (IF FSign(a) = FSign(b) THEN a ELSE NaN)
    ELSE IF FIsInf(a) THEN a
    ELSE IF FIsInf(b) THEN b
    ELSE LET va == (IF FSign(a) = 1 THEN -1 ELSE 1) * ValInt(FMag(a))
             vb == (IF FSign(b) = 1 THEN -1 ELSE 1) * ValInt(FMag(b))
             t == va + vb
         IN  IF t = 0
             THEN (IF FSign(a) = 1 /\ FSign(b) = 1 THEN NegZero ELSE PosZero)
             ELSE IF t > 0 THEN FPack(0, RoundMag(t, QMin))
                  ELSE FPack(1, RoundMag(-t, QMin))

\* x - y
FSub(a, b) == FAdd(a, FNeg(b))

\* x * y
FMul(a, b) ==
    LET s == (FSign(a) + FSign(b)) % 2
    IN  IF FIsNan(a) \/ FIsNan(b) THEN NaN
        ELSE IF FIsInf(a) \/ FIsInf(b)
             THEN (IF FIsZero(a) \/ FIsZero(b) THEN NaN ELSE FPack(s, InfMag))
        ELSE FPack(s, RoundMag(Mant(FMag(a)) * Mant(FMag(b)),
                               QExp(FMag(a)) + QExp(FMag(b))))

\* x / y
FDiv(a, b) ==
    LET s == (FSign(a) + FSign(b)) % 2
        k == 2 * MantBits + 3
    IN  IF FIsNan(a) \/ FIsNan(b) THEN NaN
        ELSE IF FIsInf(a) THEN (IF FIsInf(b) THEN NaN ELSE FPack(s, InfMag))
        ELSE IF FIsInf(b) THEN FPack(s, 0)
        ELSE IF FIsZero(b) THEN (IF FIsZero(a) THEN NaN ELSE FPack(s, InfMag))
        ELSE IF FIsZero(a) THEN FPack(s, 0)
        ELSE LET n == Mant(FMag(a)) * (2 ^ k)
                 q == n \div Mant(FMag(b))
                 st == IF n % Mant(FMag(b)) = 0 THEN 0 ELSE 1
             IN  FPack(s, RoundMag(2 * q + st,
                                   QExp(FMag(a)) - QExp(FMag(b)) - k - 1))

\* x.recip() is 1.0 / x
FRecip(p) == FDiv(One, p)

\* x.sqrt()
FSqrt(p) ==
    IF FIsNan(p) THEN NaN
    ELSE IF FIsZero(p) THEN p
    ELSE IF FSign(p) = 1 THEN NaN
    ELSE IF FIsInf(p) THEN p
    ELSE LET e == QExp(FMag(p))
             k == 2 * MantBits + 4 + (e % 2)
             n == Mant(FMag(p)) * (2 ^ k)
             r == Isqrt(n)
             st == IF r * r = n THEN 0 ELSE 1
         IN  FPack(0, RoundMag(2 * r + st, ((e - k) \div 2) - 1))

\* x == y of the float type: a NaN equals nothing, the two zeros are equal.
FEq(a, b) ==
    /\ ~FIsNan(a)
    /\ ~FIsNan(b)
    /\ (a = b \/ (FIsZero(a) /\ FIsZero(b)))

\* ------------------------------------------------------------------------
\* Outcome of a call: it returns val, or it panics.
\* ------------------------------------------------------------------------
Ok(v) == [panicked |-> FALSE, val |-> v]
Panic == [panicked |-> TRUE]
Unit == <<>>

\* ------------------------------------------------------------------------
\* Arithmetic of the element type T on outcomes, evaluated left to right.
\* ty is "f" or "i"; chk says whether the build has overflow checks.
\* ------------------------------------------------------------------------
\* a + b
CAdd(ty, chk, ra, rb) ==
    IF ra.panicked \/ rb.panicked THEN Panic
    ELSE IF ty = "f" THEN Ok(FAdd(ra.val, rb.val))
    ELSE IF chk /\ ~IntInRange(ra.val + rb.val) THEN Panic
    ELSE Ok(IntWrap(ra.val + rb.val))

\* a - b
CSub(ty, chk, ra, rb) ==
    IF ra.panicked \/ rb.panicked THEN Panic
    ELSE IF ty = "f" THEN Ok(FSub(ra.val, rb.val))
    ELSE IF chk /\ ~IntInRange(ra.val - rb.val) THEN Panic
    ELSE Ok(IntWrap(ra.val - rb.val))

\* a * b
CMul(ty, chk, ra, rb) ==
    IF ra.panicked \/ rb.panicked THEN Panic
    ELSE IF ty = "f" THEN Ok(FMul(ra.val, rb.val))
    ELSE IF chk /\ ~IntInRange(ra.val * rb.val) THEN Panic
    ELSE Ok(IntWrap(ra.val * rb.val))

\* -a
CNeg(ty, chk, ra) ==
    IF ra.panicked THEN Panic
    ELSE IF ty = "f" THEN Ok(FNeg(ra.val))
    ELSE IF chk /\ ~IntInRange(-ra.val) THEN Panic
    ELSE Ok(IntWrap(-ra.val))

\* a.abs() of num_traits::sign::Signed: the integer types negate a
\* negative value, the float types clear the sign.
CAbs(ty, chk, ra) ==
    IF ra.panicked THEN Panic
    ELSE IF ty = "f" THEN Ok(FAbs(ra.val))
    ELSE IF ra.val < 0 THEN CNeg(ty, chk, ra)
    ELSE ra

\* a == b of the element type
TEq(ty, a, b) == IF ty = "f" THEN FEq(a, b) ELSE a = b

\* ------------------------------------------------------------------------
\* Vector2<T>
\* ------------------------------------------------------------------------
\* Vector2 { x: .., y: .. } from the outcomes of its field expressions.
MkVector2(rx, ry) ==
    IF rx.panicked \/ ry.panicked THEN Panic
    ELSE Ok([x |-> rx.val, y |-> ry.val])

\* Variant: only the first component is validated.
Vector2_new_first_only(x, y) ==
    IF ~(~FIsNan(x)) THEN Panic
    ELSE Ok([x |-> x, y |-> y])

Vector2_new(x, y) ==
    IF ~(~FIsNan(x) /\ ~FIsNan(y)) THEN Panic
    ELSE Ok([x |-> x, y |-> y])

Vector2_length_squared(ty, chk, self) ==
    CAdd(ty, chk, CMul(ty, chk, Ok(self.x), Ok(self.x)),
                  CMul(ty, chk, Ok(self.y), Ok(self.y)))

Vector2_length(self) ==
    Ok(FSqrt(Vector2_length_squared("f", FALSE, self).val))

Vector2_has_nans(self) == Ok(FIsNan(self.x) \/ FIsNan(self.y))

Vector2_abs(ty, chk, self) ==
    MkVector2(CAbs(ty, chk, Ok(self.x)), CAbs(ty, chk, Ok(self.y)))

Vector2_dot(ty, chk, self, rhs) ==
    CAdd(ty, chk, CMul(ty, chk, Ok(self.x), Ok(rhs.x)),
                  CMul(ty, chk, Ok(self.y), Ok(rhs.y)))

Vector2_add(ty, chk, self, rhs) ==
    MkVector2(CAdd(ty, chk, Ok(self.x), Ok(rhs.x)),
              CAdd(ty, chk, Ok(self.y), Ok(rhs.y)))

\* The outcome of a compound assignment carries the receiver as the call
\* leaves it: a panic in a later field leaves the earlier fields updated.
Vector2_add_assign(ty, chk, self, rhs) ==
    LET rx == CAdd(ty, chk, Ok(self.x), Ok(rhs.x))
        s1 == [self EXCEPT !.x = rx.val]
        ry == CAdd(ty, chk, Ok(s1.y), Ok(rhs.y))
    IN  IF rx.panicked THEN [panicked |-> TRUE, self |-> self]
        ELSE IF ry.panicked THEN [panicked |-> TRUE, self |-> s1]
        ELSE [panicked |-> FALSE, self |-> [s1 EXCEPT !.y = ry.val]]

Vector2_sub(ty, chk, self, rhs) ==
    MkVector2(CSub(ty, chk, Ok(self.x), Ok(rhs.x)),
              CSub(ty, chk, Ok(self.y), Ok(rhs.y)))

Vector2_sub_assign(ty, chk, self, rhs) ==
    LET rx == CSub(ty, chk, Ok(self.x), Ok(rhs.x))
        s1 == [self EXCEPT !.x = rx.val]
        ry == CSub(ty, chk, Ok(s1.y), Ok(rhs.y))
    IN  IF rx.panicked THEN [panicked |-> TRUE, self |-> self]
        ELSE IF ry.panicked THEN [panicked |-> TRUE, self |-> s1]
        ELSE [panicked |-> FALSE, self |-> [s1 EXCEPT !.y = ry.val]]

\* T: Float
Vector2_mul(self, rhs) ==
    MkVector2(CMul("f", FALSE, Ok(self.x), Ok(rhs)),
              CMul("f", FALSE, Ok(self.y), Ok(rhs)))

Vector2_mul_assign(ty, chk, self, constant) ==
    LET rx == CMul(ty, chk, Ok(self.x), Ok(constant))
        s1 == [self EXCEPT !.x = rx.val]
        ry == CMul(ty, chk, Ok(s1.y), Ok(constant))
    IN  IF rx.panicked THEN [panicked |-> TRUE, self |-> self]
        ELSE IF ry.panicked THEN [panicked |-> TRUE, self |-> s1]
        ELSE [panicked |-> FALSE, self |-> [s1 EXCEPT !.y = ry.val]]

\* Variant: every component is divided by the scalar directly.
Vector2_div_direct(self, rhs) ==
    MkVector2(Ok(FDiv(self.x, rhs)), Ok(FDiv(self.y, rhs)))

\* T: Float
Vector2_div(self, rhs) == Vector2_mul(self, FRecip(rhs))

\* Variant: the y component is copied, not negated.
Vector2_neg_keeps_y(ty, chk, self) ==
    MkVector2(CNeg(ty, chk, Ok(self.x)), Ok(self.y))

Vector2_neg(ty, chk, self) ==
    MkVector2(CNeg(ty, chk, Ok(self.x)), CNeg(ty, chk, Ok(self.y)))

Vector2_index(self, index) ==
    CASE index = 0 -> Ok(self.x)
      [] index = 1 -> Ok(self.y)
      [] OTHER -> Panic

vec2_dot(ty, chk, a, b) ==
    CAdd(ty, chk, CMul(ty, chk, Ok(a.x), Ok(b.x)),
                  CMul(ty, chk, Ok(a.y), Ok(b.y)))

\* #[derive(PartialEq)]
Vector2_eq(ty, a, b) == TEq(ty, a.x, b.x) /\ TEq(ty, a.y, b.y)

\* ------------------------------------------------------------------------
\* Vector3<T>
\* ------------------------------------------------------------------------
MkVector3(rx, ry, rz) ==
    IF rx.panicked \/ ry.panicked \/ rz.panicked THEN Panic
    ELSE Ok([x |-> rx.val, y |-> ry.val, z |-> rz.val])

Vector3_new(x, y, z) ==
    IF ~(~FIsNan(x) /\ ~FIsNan(y) /\ ~FIsNan(z)) THEN Panic
    ELSE Ok([x |-> x, y |-> y, z |-> z])

\* Variant: the last term is z, not z * z.
Vector3_length_squared_plain_z(ty, chk, self) ==
    CAdd(ty, chk,
         CAdd(ty, chk, CMul(ty, chk, Ok(self.x), Ok(self.x)),
                       CMul(ty, chk, Ok(self.y), Ok(self.y))),
         Ok(self.z))

Vector3_length_squared(ty, chk, self) ==
    CAdd(ty, chk,
         CAdd(ty, chk, CMul(ty, chk, Ok(self.x), Ok(self.x)),
                       CMul(ty, chk, Ok(self.y), Ok(self.y))),
         CMul(ty, chk, Ok(self.z), Ok(self.z)))

Vector3_length(self) ==
    Ok(FSqrt(Vector3_length_squared("f", FALSE, self).val))

\* Variant: the z component is not tested.
Vector3_has_nans_without_z(self) ==
    Ok(FIsNan(self.x) \/ FIsNan(self.y))

Vector3_has_nans(self) ==
    Ok(FIsNan(self.x) \/ FIsNan(self.y) \/ FIsNan(self.z))

Vector3_abs(ty, chk, self) ==
    MkVector3(CAbs(ty, chk, Ok(self.x)), CAbs(ty, chk, Ok(self.y)),
              CAbs(ty, chk, Ok(self.z)))

Vector3_dot(ty, chk, self, rhs) ==
    CAdd(ty, chk,
         CAdd(ty, chk, CMul(ty, chk, Ok(self.x), Ok(rhs.x)),
                       CMul(ty, chk, Ok(self.y), Ok(rhs.y))),
         CMul(ty, chk, Ok(self.z), Ok(rhs.z)))

\* Variant: the z component is subtracted.
Vector3_add_sub_z(ty, chk, self, rhs) ==
    MkVector3(CAdd(ty, chk, Ok(self.x), Ok(rhs.x)),
              CAdd(ty, chk, Ok(self.y), Ok(rhs.y)),
              CSub(ty, chk, Ok(self.z), Ok(rhs.z)))

Vector3_add(ty, chk, self, rhs) ==
    MkVector3(CAdd(ty, chk, Ok(self.x), Ok(rhs.x)),
              CAdd(ty, chk, Ok(self.y), Ok(rhs.y)),
              CAdd(ty, chk, Ok(self.z), Ok(rhs.z)))

\* Variant: the z component is not updated.
Vector3_add_assign_without_z(ty, chk, self, rhs) ==
    LET rx == CAdd(ty, chk, Ok(self.x), Ok(rhs.x))
        s1 == [self EXCEPT !.x = rx.val]
        ry == CAdd(ty, chk, Ok(s1.y), Ok(rhs.y))
    IN  IF rx.panicked THEN [panicked |-> TRUE, self |-> self]
        ELSE IF ry.panicked THEN [panicked |-> TRUE, self |-> s1]
        ELSE [panicked |-> FALSE, self |-> [s1 EXCEPT !.y = ry.val]]

Vector3_add_assign(ty, chk, self, rhs) ==
    LET rx == CAdd(ty, chk, Ok(self.x), Ok(rhs.x))
        s1 == [self EXCEPT !.x = rx.val]
        ry == CAdd(ty, chk, Ok(s1.y), Ok(rhs.y))
        s2 == [s1 EXCEPT !.y = ry.val]
        rz == CAdd(ty, chk, Ok(s2.z), Ok(rhs.z))
    IN  IF rx.panicked THEN [panicked |-> TRUE, self |-> self]
        ELSE IF ry.panicked THEN [panicked |-> TRUE, self |-> s1]
        ELSE IF rz.panicked THEN [panicked |-> TRUE, self |-> s2]
        ELSE [panicked |-> FALSE, self |-> [s2 EXCEPT !.z = rz.val]]

Vector3_sub(ty, chk, self, rhs) ==
    MkVector3(CSub(ty, chk, Ok(self.x), Ok(rhs.x)),
              CSub(ty, chk, Ok(self.y), Ok(rhs.y)),
              CSub(ty, chk, Ok(self.z), Ok(rhs.z)))

Vector3_sub_assign(ty, chk, self, rhs) ==
    LET rx == CSub(ty, chk, Ok(self.x), Ok(rhs.x))
        s1 == [self EXCEPT !.x = rx.val]
        ry == CSub(ty, chk, Ok(s1.y), Ok(rhs.y))
        s2 == [s1 EXCEPT !.y = ry.val]
        rz == CSub(ty, chk, Ok(s2.z), Ok(rhs.z))
    IN  IF rx.panicked THEN [panicked |-> TRUE, self |-> self]
        ELSE IF ry.panicked THEN [panicked |-> TRUE, self |-> s1]
        ELSE IF rz.panicked THEN [panicked |-> TRUE, self |-> s2]
        ELSE [panicked |-> FALSE, self |-> [s2 EXCEPT !.z = rz.val]]

\* T: Float
Vector3_mul(self, rhs) ==
    MkVector3(CMul("f", FALSE, Ok(self.x), Ok(rhs)),
              CMul("f", FALSE, Ok(self.y), Ok(rhs)),
              CMul("f", FALSE, Ok(self.z), Ok(rhs)))

Vector3_mul_assign(ty, chk, self, constant) ==
    LET rx == CMul(ty, chk, Ok(self.x), Ok(constant))
        s1 == [self EXCEPT !.x = rx.val]
        ry == CMul(ty, chk, Ok(s1.y), Ok(constant))
        s2 == [s1 EXCEPT !.y = ry.val]
        rz == CMul(ty, chk, Ok(s2.z), Ok(constant))
    IN  IF rx.panicked THEN [panicked |-> TRUE, self |-> self]
        ELSE IF ry.panicked THEN [panicked |-> TRUE, self |-> s1]
        ELSE IF rz.panicked THEN [panicked |-> TRUE, self |-> s2]
        ELSE [panicked |-> FALSE, self |-> [s2 EXCEPT !.z = rz.val]]

\* Variant: a zero divisor is rejected.
Vector3_div_rejects_zero(self, rhs) ==
    IF FIsZero(rhs) THEN Panic ELSE Vector3_mul(self, FRecip(rhs))

\* T: Float
Vector3_div(self, rhs) == Vector3_mul(self, FRecip(rhs))

Vector3_neg(ty, chk, self) ==
    MkVector3(CNeg(ty, chk, Ok(self.x)), CNeg(ty, chk, Ok(self.y)),
              CNeg(ty, chk, Ok(self.z)))

\* Variant: an index beyond the arity wraps around.
Vector3_index_wrapping(self, index) ==
    CASE index % 3 = 0 -> Ok(self.x)
      [] index % 3 = 1 -> Ok(self.y)
      [] OTHER -> Ok(self.z)

Vector3_index(self, index) ==
    CASE index = 0 -> Ok(self.x)
      [] index = 1 -> Ok(self.y)
      [] index = 2 -> Ok(self.z)
      [] OTHER -> Panic

\* a.x * b.x + a.y * b.y + a.z + b.z
vec3_dot(ty, chk, a, b) ==
    CAdd(ty, chk,
         CAdd(ty, chk,
              CAdd(ty, chk, CMul(ty, chk, Ok(a.x), Ok(b.x)),
                            CMul(ty, chk, Ok(a.y), Ok(b.y))),
              Ok(a.z)),
         Ok(b.z))

\* #[derive(PartialEq)]
Vector3_eq(ty, a, b) ==
    TEq(ty, a.x, b.x) /\ TEq(ty, a.y, b.y) /\ TEq(ty, a.z, b.z)

\* ------------------------------------------------------------------------
\* A caller: it holds two vectors of one arity and element type, built as
\* raw aggregates, and calls one operation after the other on copies of
\* them (the types are Copy), keeping the outcome of the last call.
\* ------------------------------------------------------------------------
VARIABLES
    ty,               \* element type: "f" or "i"
    overflow_checks,  \* whether the build has integer overflow checks
                      \* (no effect on floats, where it is kept FALSE)
    arity,            \* 2 for Vector2, 3 for Vector3
    lhs,              \* the left operand / receiver before the call
    rhs,              \* the right operand vector
    op,               \* the operation called last, "none" at the start
    scalar,           \* the scalar argument of the last mul / mul_assign / div
    index,            \* the argument of the last index
    self,             \* the receiver after the last call
    res               \* outcome of the last call

vars == <<ty, overflow_checks, arity, lhs, rhs, op, scalar, index, self, res>>

\* 2.0, 3.0, 5.0, -1.0
Two == One + Hidden
Three == Two + (Hidden \div 2)
Five == Two + Hidden + (Hidden \div 4)
NegOne == FPack(1, One)

\* Component values the caller builds its vectors and scalars from.
LhsValues(t) == IF t = "f" THEN {NaN, PosInf, NegZero, NegOne, Three}
                ELSE {IntMin, -1, 2, IntMax}
RhsValues(t) == IF t = "f" THEN {NegInf, Three}
                ELSE {-1, 3}
ScalarValues(t) == IF t = "f" THEN {PosZero, NegOne, Five, PosInf}
                   ELSE {-1, 2, IntMax}

Vectors(n, S) == IF n = 2 THEN [x : S, y : S] ELSE [x : S, y : S, z : S]

Init ==
    /\ ty \in {"f", "i"}
    /\ overflow_checks \in (IF ty = "i" THEN BOOLEAN ELSE {FALSE})
    /\ arity \in {2, 3}
    /\ lhs \in Vectors(arity, LhsValues(ty))
    /\ rhs \in Vectors(arity, RhsValues(ty))
    /\ op = "none"
    /\ scalar = 0
    /\ index = 0
    /\ self = lhs
    /\ res = Ok(Unit)

\* A call that takes the receiver by value and returns outcome r.
Call(name, r) ==
    /\ op' = name
    /\ res' = r
    /\ self' = lhs
    /\ UNCHANGED <<ty, overflow_checks, arity, lhs, rhs>>

\* A call that takes the receiver by &mut and leaves it as r.self.
CallAssign(name, r) ==
    /\ op' = name
    /\ res' = IF r.panicked THEN Panic ELSE Ok(Unit)
    /\ self' = r.self
    /\ UNCHANGED <<ty, overflow_checks, arity, lhs, rhs>>

New ==
    /\ ty = "f"
    /\ Call("new", IF arity = 2 THEN Vector2_new(lhs.x, lhs.y)
                   ELSE Vector3_new(lhs.x, lhs.y, lhs.z))
    /\ scalar' = 0
    /\ index' = 0

LengthSquared ==
    /\ Call("length_squared",
            IF arity = 2 THEN Vector2_length_squared(ty, overflow_checks, lhs)
            ELSE Vector3_length_squared(ty, overflow_checks, lhs))
    /\ scalar' = 0
    /\ index' = 0

Length ==
    /\ ty = "f"
    /\ Call("length", IF arity = 2 THEN Vector2_length(lhs)
                      ELSE Vector3_length(lhs))
    /\ scalar' = 0
    /\ index' = 0

HasNans ==
    /\ ty = "f"
    /\ Call("has_nans", IF arity = 2 THEN Vector2_has_nans(lhs)
                        ELSE Vector3_has_nans(lhs))
    /\ scalar' = 0
    /\ index' = 0

Abs ==
    /\ Call("abs", IF arity = 2 THEN Vector2_abs(ty, overflow_checks, lhs)
                   ELSE Vector3_abs(ty, overflow_checks, lhs))
    /\ scalar' = 0
    /\ index' = 0

Dot ==
    /\ Call("dot", IF arity = 2 THEN Vector2_dot(ty, overflow_checks, lhs, rhs)
                   ELSE Vector3_dot(ty, overflow_checks, lhs, rhs))
    /\ scalar' = 0
    /\ index' = 0

VecDot ==
    /\ Call("vec_dot", IF arity = 2 THEN vec2_dot(ty, overflow_checks, lhs, rhs)
                       ELSE vec3_dot(ty, overflow_checks, lhs, rhs))
    /\ scalar' = 0
    /\ index' = 0

Add ==
    /\ Call("add", IF arity = 2 THEN Vector2_add(ty, overflow_checks, lhs, rhs)
                   ELSE Vector3_add(ty, overflow_checks, lhs, rhs))
    /\ scalar' = 0
    /\ index' = 0

AddAssign ==
    /\ CallAssign("add_assign",
                  IF arity = 2
                  THEN Vector2_add_assign(ty, overflow_checks, lhs, rhs)
                  ELSE Vector3_add_assign(ty, overflow_checks, lhs, rhs))
    /\ scalar' = 0
    /\ index' = 0

Sub ==
    /\ Call("sub", IF arity = 2 THEN Vector2_sub(ty, overflow_checks, lhs, rhs)
                   ELSE Vector3_sub(ty, overflow_checks, lhs, rhs))
    /\ scalar' = 0
    /\ index' = 0

SubAssign ==
    /\ CallAssign("sub_assign",
                  IF arity = 2
                  THEN Vector2_sub_assign(ty, overflow_checks, lhs, rhs)
                  ELSE Vector3_sub_assign(ty, overflow_checks, lhs, rhs))
    /\ scalar' = 0
    /\ index' = 0

Mul ==
    /\ ty = "f"
    /\ \E k \in ScalarValues(ty) :
          /\ scalar' = k
          /\ Call("mul", IF arity = 2 THEN Vector2_mul(lhs, k)
                         ELSE Vector3_mul(lhs, k))
    /\ index' = 0

MulAssign ==
    /\ \E k \in ScalarValues(ty) :
          /\ scalar' = k
          /\ CallAssign("mul_assign",
                        IF arity = 2
                        THEN Vector2_mul_assign(ty, overflow_checks, lhs, k)
                        ELSE Vector3_mul_assign(ty, overflow_checks, lhs, k))
    /\ index' = 0

Div ==
    /\ ty = "f"
    /\ \E k \in ScalarValues(ty) :
          /\ scalar' = k
          /\ Call("div", IF arity = 2 THEN Vector2_div(lhs, k)
                         ELSE Vector3_div(lhs, k))
    /\ index' = 0

Neg ==
    /\ Call("neg", IF arity = 2 THEN Vector2_neg(ty, overflow_checks, lhs)
                   ELSE Vector3_neg(ty, overflow_checks, lhs))
    /\ scalar' = 0
    /\ index' = 0

Index ==
    /\ \E i \in 0..MaxIndex :
          /\ index' = i
          /\ Call("index", IF arity = 2 THEN Vector2_index(lhs, i)
                           ELSE Vector3_index(lhs, i))
    /\ scalar' = 0

Next ==
    \/ New
    \/ LengthSquared
    \/ Length
    \/ HasNans
    \/ Abs
    \/ Dot
    \/ VecDot
    \/ Add
    \/ AddAssign
    \/ Sub
    \/ SubAssign
    \/ Mul
    \/ MulAssign
    \/ Div
    \/ Neg
    \/ Index

Spec == Init /\ [][Next]_vars

\* ------------------------------------------------------------------------
\* Properties
\* ------------------------------------------------------------------------
\* The calls of the caller's arity and element type on arbitrary operands.
DotOf(a, b) ==
    IF arity = 2 THEN Vector2_dot(ty, overflow_checks, a, b)
    ELSE Vector3_dot(ty, overflow_checks, a, b)

AddOf(a, b) ==
    IF arity = 2 THEN Vector2_add(ty, overflow_checks, a, b)
    ELSE Vector3_add(ty, overflow_checks, a, b)

SubOf(a, b) ==
    IF arity = 2 THEN Vector2_sub(ty, overflow_checks, a, b)
    ELSE Vector3_sub(ty, overflow_checks, a, b)

MulOf(a, k) == IF arity = 2 THEN Vector2_mul(a, k) ELSE Vector3_mul(a, k)

EqOf(a, b) == IF arity = 2 THEN Vector2_eq(ty, a, b) ELSE Vector3_eq(ty, a, b)

\* The components of a vector, as a sequence and as a set.
Fields(v) == IF arity = 2 THEN <<v.x, v.y>> ELSE <<v.x, v.y, v.z>>
Comps(v) == {Fields(v)[i] : i \in 1..arity}

ZeroVector == IF arity = 2 THEN [x |-> PosZero, y |-> PosZero]
              ELSE [x |-> PosZero, y |-> PosZero, z |-> PosZero]

\* C1: the free dot function returns the same outcome as the dot method on
\* the same operands, for both arities.
C1_FreeDotEqualsMethod == op = "vec_dot" => res = DotOf(lhs, rhs)

\* C2: indexing returns x for 0, y for 1 and (Vector3) z for 2, and panics
\* for every index at or beyond the arity.
C2_IndexBoundsChecked ==
    op = "index" =>
        IF index < arity THEN res = Ok(Fields(lhs)[index + 1])
        ELSE res.panicked

C2_Witness == op = "index" /\ arity = 3 /\ index = 3 /\ res.panicked

\* C3: the validating constructor panics exactly when a component is NaN;
\* otherwise it returns the raw aggregate of its arguments, which compares
\* equal to it and has no NaN component.
C3_ValidatingConstructor ==
    op = "new" =>
        /\ res.panicked <=> (\E c \in Comps(lhs) : FIsNan(c))
        /\ ~res.panicked =>
              /\ res.val = lhs
              /\ EqOf(res.val, lhs)
              /\ \A c \in Comps(res.val) : ~FIsNan(c)

C3_Witness == op = "new" /\ res.panicked /\ ~FIsNan(lhs.x)

\* The operations the error model calls total.
TotalOps == {"add", "sub", "add_assign", "sub_assign", "mul", "mul_assign",
             "div", "neg", "length_squared", "length", "has_nans", "abs",
             "dot", "vec_dot"}

\* C4 as stated: none of the total operations ever panics.
C4_Total == op \in TotalOps => ~res.panicked

\* The exact (unbounded) integer results of the arithmetic steps the last
\* call takes, in evaluation order.
Steps ==
    LET a == Fields(lhs)
        b == Fields(rhs)
        n == arity
        prods == [i \in 1..n |-> a[i] * b[i]]
        sqs == [i \in 1..n |-> a[i] * a[i]]
        Sums(p) == IF n = 2 THEN <<p[1] + p[2]>>
                   ELSE <<p[1] + p[2], p[1] + p[2] + p[3]>>
    IN  CASE op \in {"add", "add_assign"} -> [i \in 1..n |-> a[i] + b[i]]
          [] op \in {"sub", "sub_assign"} -> [i \in 1..n |-> a[i] - b[i]]
          [] op = "mul_assign" -> [i \in 1..n |-> a[i] * scalar]
          [] op = "neg" -> [i \in 1..n |-> -a[i]]
          [] op = "abs" -> [i \in 1..n |-> IF a[i] < 0 THEN -a[i] ELSE a[i]]
          [] op = "length_squared" -> sqs \o Sums(sqs)
          [] op = "dot" -> prods \o Sums(prods)
          [] op = "vec_dot" ->
                IF n = 2 THEN prods \o Sums(prods)
                ELSE <<prods[1], prods[2], prods[1] + prods[2],
                       prods[1] + prods[2] + a[3],
                       prods[1] + prods[2] + a[3] + b[3]>>
          [] OTHER -> <<>>

StepOverflows == \E i \in DOMAIN Steps : ~IntInRange(Steps[i])

\* C4, amended: a total operation panics exactly when the element type is an
\* integer, the build has overflow checks and one of its arithmetic steps
\* overflows; on floats it never panics, and a division by a zero scalar
\* returns a vector whose components are all infinite or NaN.
C4_TotalUnlessIntegerOverflow ==
    op \in TotalOps =>
        /\ res.panicked <=> (ty = "i" /\ overflow_checks /\ StepOverflows)
        /\ (op = "div" /\ FIsZero(scalar)) =>
              \A c \in Comps(res.val) : FIsInf(c) \/ FIsNan(c)

C4_Witness ==
    /\ op = "div"
    /\ FIsZero(scalar)
    /\ ~res.panicked
    /\ \E c \in Comps(res.val) : FIsInf(c)

\* C5 as stated: a + b == b + a under the derived equality, for all a and b.
C5_AddCommutes ==
    op = "add" =>
        LET r == AddOf(rhs, lhs)
        IN  /\ res.panicked = r.panicked
            /\ ~res.panicked => EqOf(res.val, r.val)

\* C5, amended: a + b and b + a panic together, and a + b == b + a whenever
\* no component of the sum is NaN.
C5_AddCommutesUnlessNaN ==
    op = "add" =>
        LET r == AddOf(rhs, lhs)
        IN  /\ res.panicked = r.panicked
            /\ (~res.panicked /\ (ty = "f" => \A c \in Comps(res.val) : ~FIsNan(c)))
                  => EqOf(res.val, r.val)

C5_Witness ==
    /\ op = "add"
    /\ ty = "f"
    /\ arity = 3
    /\ ~res.panicked
    /\ \A c \in Comps(res.val) : ~FIsNan(c)
    /\ lhs.z /= rhs.z

\* C6: a compound assignment completes exactly when the value-returning
\* operator on the same operands returns, and then leaves the receiver equal
\* to the returned vector, component for component.
AssignMatches(r) ==
    /\ res.panicked = r.panicked
    /\ ~r.panicked => self = r.val

C6_AssignMatchesOperator ==
    /\ op = "add_assign" => AssignMatches(AddOf(lhs, rhs))
    /\ op = "sub_assign" => AssignMatches(SubOf(lhs, rhs))
    /\ (op = "mul_assign" /\ ty = "f") => AssignMatches(MulOf(lhs, scalar))

C6_Witness ==
    /\ op = "add_assign"
    /\ arity = 3
    /\ ~res.panicked
    /\ self.x /= lhs.x /\ self.y /= lhs.y /\ self.z /= lhs.z

\* C7: has_nans never panics and returns true exactly when some component
\* of the vector is NaN.
C7_HasNans ==
    op = "has_nans" =>
        /\ ~res.panicked
        /\ res.val <=> (\E c \in Comps(lhs) : FIsNan(c))

C7_Witness ==
    /\ op = "has_nans"
    /\ arity = 3
    /\ ~FIsNan(lhs.x) /\ ~FIsNan(lhs.y) /\ FIsNan(lhs.z)
    /\ res.val

\* C8: v / s is, bit for bit, the vector v * (1 / s): every component is
\* the rounded product of the component and the rounded reciprocal.
C8_DivIsMulByRecip == op = "div" => res = MulOf(lhs, FRecip(scalar))

\* A division whose result differs from the directly divided component.
C8_Witness ==
    /\ op = "div"
    /\ ~res.panicked
    /\ res.val.x /= FDiv(lhs.x, scalar)

\* C9 as stated: a + (-a) equals the zero vector for every float vector a.
C9_AdditiveInverse ==
    (op = "neg" /\ ty = "f") =>
        /\ ~res.panicked
        /\ EqOf(AddOf(lhs, res.val).val, ZeroVector)

\* C9, amended: a + (-a) equals the zero vector for every float vector a
\* whose components are all finite.
C9_AdditiveInverseOfFinite ==
    (op = "neg" /\ ty = "f" /\ \A c \in Comps(lhs) : FIsFinite(c)) =>
        /\ ~res.panicked
        /\ EqOf(AddOf(lhs, res.val).val, ZeroVector)

C9_Witness ==
    /\ op = "neg"
    /\ ty = "f"
    /\ \A c \in Comps(lhs) : FIsFinite(c)
    /\ lhs.x = Three
    /\ lhs.y = NegOne

\* C10: length_squared returns the same outcome as the dot method applied
\* to the vector and itself.
C10_LengthSquaredIsSelfDot == op = "length_squared" => res = DotOf(lhs, lhs)

C10_Witness ==
    /\ op = "length_squared"
    /\ arity = 3
    /\ ~res.panicked
    /\ lhs.z = Three

====
